---- MODULE Spec2Model ----
(***************************************************************************)
(* Bottle selection and open engine of lovisa-bottles.                     *)
(*                                                                         *)
(* The store (bottles, journal_entries, bottle_opens) is shared by the     *)
(* request handlers.  Every handler is modelled as a process that runs one *)
(* step per awaited store / provider call, so that requests interleave     *)
(* exactly where the code can be pre-empted.                               *)
(***************************************************************************)
EXTENDS Integers, Sequences, FiniteSets, TLC

VARIABLES
    now,            \* server clock, in hours
    bottle,         \* table bottles: id -> row
    journals,       \* table journal_entries (committed rows)
    opens,          \* table bottle_opens (committed rows)
    nextJournalId,  \* autoincrement sequence of journal_entries.id
    arrivals,       \* number of requests received so far
    pc,             \* position of each request handler
    req,            \* input and locals of each request handler
    resp,           \* the response sent by the latest step, if it sent one
    committed,      \* history: <<bottle, user, day>> of every committed open
    selIn,          \* input of a stand-alone pickBestBottle evaluation
    selOut,         \* its outcome
    retIn,          \* input of a stand-alone candidate retrieval
    retOut,         \* its outcome
    access,         \* table image_access (committed rows)
    work,           \* the image request each handler is serving, if any
    served,         \* the response of the latest image-access step, if any
    calls,          \* number of grant and of fetch requests received so far
    peak            \* history: the highest counter each (image, user) pair has shown

vars == <<now, bottle, journals, opens, nextJournalId, arrivals, pc, req, resp,
          committed, selIn, selOut, retIn, retOut, access, work, served, calls,
          peak>>

----------------------------------------------------------------------------
(* Bounds of the model *)

MaxRequests == 2
MaxTicks == 1
MaxReplyLen == 2
MaxGrants == 2
MaxFetches == 2
MaxHours == 2

(* Program constants *)

HoursPerDay == 24
LIMIT == 5

\* two request handlers can be in flight at once
Procs == {1, 2}
Users == {1, 2}
\* bottle ids a request can name; 4 is the id of no bottle
BottleIds == 1..4

\* isAdmin flag of the authenticated user (user 1 is the curator)
IsAdmin(u) == u = 1

\* the clock advances a day at a time
TickHours == HoursPerDay

----------------------------------------------------------------------------
(* Clock *)

\* today.setHours(0, 0, 0, 0)
StartOfDay(t) == t - (t % HoursPerDay)

\* tomorrow.setDate(tomorrow.getDate() + 1)
NextDay(today) == today + HoursPerDay

----------------------------------------------------------------------------
(* Store queries *)

\* prisma.bottle.findUnique({ where: { id } }) found a row
bottleExists(b) == b \in DOMAIN bottle

\* prisma.bottleOpen.findUnique({ where: { bottleId_userId } }) found a row
existingOpen(os, b, u) == \E o \in os : o.bottleId = b /\ o.userId = u

\* prisma.bottleOpen.findFirst({ userId, openedAt: { gte: today, lt: tomorrow } })
openedToday(os, u, t) ==
    LET today == StartOfDay(t)
        tomorrow == NextDay(today)
    IN  \E o \in os : o.userId = u /\ o.openedAt >= today /\ o.openedAt < tomorrow

\* the (bottleId, userId) unique index of bottle_opens rejects the row
UniqueViolation_off(os, b, u) == FALSE
UniqueViolation(os, b, u) == \E o \in os : o.bottleId = b /\ o.userId = u

\* the rows a rolled-back transaction leaves in journal_entries
RolledBack_leak(js, pending) == js \cup pending
RolledBack(js, pending) == js

----------------------------------------------------------------------------
(* Candidate retrieval: ORDER BY mood_embedding <=> query LIMIT 5 *)

Dot(a, b) == a[1] * b[1] + a[2] * b[2]

\* sign(x) * x^2, monotone in x
SignedSquare(x) == IF x >= 0 THEN x * x ELSE 0 - (x * x)

\* cosine distance of a to q strictly smaller than that of b to q
\* (1 - cos is compared through sign(dot) * dot^2 / |e|^2, |q| being common)
Closer(q, a, b) ==
    SignedSquare(Dot(q, a)) * Dot(b, b) > SignedSquare(Dot(q, b)) * Dot(a, a)

\* WHERE id NOT IN (openedIds) AND mood_embedding IS NOT NULL AND mood IS NOT NULL
Qualifies_anyMood(bt, openedIds, b) ==
    /\ (openedIds # {} => b \notin openedIds)
    /\ bt[b].embedding # <<>>

Qualifies(bt, openedIds, b) ==
    /\ (openedIds # {} => b \notin openedIds)
    /\ bt[b].embedding # <<>>
    /\ bt[b].mood

Orderings(S) ==
    {s \in [1..Cardinality(S) -> S] : \A i, j \in 1..Cardinality(S) : i # j => s[i] # s[j]}

Min(a, b) == IF a <= b THEN a ELSE b

\* every result the query can return: rows in ascending distance (rows at the
\* same distance in any order), cut after LIMIT rows
topBottles(bt, openedIds, q) ==
    LET Q == {b \in DOMAIN bt : Qualifies(bt, openedIds, b)}
        sorted == {s \in Orderings(Q) :
                     \A i, j \in 1..Cardinality(Q) :
                        i < j => ~Closer(q, bt[s[j]].embedding, bt[s[i]].embedding)}
    IN  {SubSeq(s, 1, Min(LIMIT, Cardinality(Q))) : s \in sorted}

----------------------------------------------------------------------------
(* Bottle selector: the reply of the re-ranking oracle is a string, modelled *)
(* as a sequence of characters                                               *)

Digits == {"0", "1", "2", "3", "9"}
Chars == Digits \cup {"-", " ", "x"}

DigitVal(c) ==
    CASE c = "0" -> 0 [] c = "1" -> 1 [] c = "2" -> 2 [] c = "3" -> 3 [] c = "9" -> 9

\* String.prototype.trim(): leading and trailing white space removed
RECURSIVE trimStart(_)
trimStart(s) == IF s # <<>> /\ Head(s) = " " THEN trimStart(Tail(s)) ELSE s

RECURSIVE trimEnd(_)
trimEnd(s) ==
    IF s # <<>> /\ s[Len(s)] = " " THEN trimEnd(SubSeq(s, 1, Len(s) - 1)) ELSE s

trim(s) == trimEnd(trimStart(s))

\* the longest prefix of s made of decimal digits
RECURSIVE digitPrefix(_)
digitPrefix(s) ==
    IF s # <<>> /\ Head(s) \in Digits THEN <<Head(s)>> \o digitPrefix(Tail(s)) ELSE <<>>

RECURSIVE decimal(_)
decimal(ds) ==
    IF ds = <<>> THEN 0 ELSE 10 * decimal(SubSeq(ds, 1, Len(ds) - 1)) + DigitVal(ds[Len(ds)])

\* parseInt(s, 10): leading white space skipped, an optional sign, then the
\* longest run of digits; NaN when there is no digit
parseInt(s) ==
    LET t == trimStart(s)
        neg == t # <<>> /\ Head(t) = "-"
        body == IF neg THEN Tail(t) ELSE t
        ds == digitPrefix(body)
    IN  IF ds = <<>>
        THEN [nan |-> TRUE, val |-> 0]
        ELSE [nan |-> FALSE, val |-> IF neg THEN 0 - decimal(ds) ELSE decimal(ds)]

\* pickBestBottle, as a function of the candidate ids and the oracle's reply
pickBestBottle(bottles, reply) ==
    LET choice == trim(reply)
        choiceNum == parseInt(choice)
    IN  IF choice = <<>>
        THEN [throws |-> TRUE, id |-> 0]
        ELSE IF choiceNum.nan \/ choiceNum.val < 1 \/ choiceNum.val > Len(bottles)
             THEN [throws |-> FALSE, id |-> bottles[1]]
             ELSE [throws |-> FALSE, id |-> bottles[choiceNum.val]]

\* topBottles.find((b) => b.id === selectedBottleId), else topBottles[0]
finalBottle(top, selected) ==
    IF \E i \in 1..Len(top) : top[i] = selected THEN selected ELSE top[1]

RECURSIVE Strings(_)
Strings(n) ==
    IF n = 0 THEN {<<>>}
    ELSE Strings(n - 1) \cup {Append(s, c) : s \in Strings(n - 1), c \in Chars}

Replies == Strings(MaxReplyLen)

\* nothing selected yet
NoPick == [done |-> FALSE, throws |-> FALSE, id |-> 0, final |-> 0]

\* the lists the retrieval can hand to the selector: at least one bottle, no
\* bottle twice, best match first
CandidateLists ==
    UNION {Orderings(S) : S \in (SUBSET (1..3)) \ {{}}}

----------------------------------------------------------------------------
(* Request handlers *)

\* embeddings the provider can return for a mood query
QueryVecs == {<<1, 0>>, <<0, 1>>}

\* bottles written by the curator flows before the requests of the model
InitBottles ==
    (1 :> [assignedViewerId |-> 2, mood |-> TRUE, embedding |-> <<1, 0>>]) @@
    (2 :> [assignedViewerId |-> 2, mood |-> TRUE, embedding |-> <<0, 1>>]) @@
    (3 :> [assignedViewerId |-> 1, mood |-> TRUE, embedding |-> <<1, 1>>])

\* a store where a single bottle has a mood: the others were written by the
\* bottle-creation flow that generates no mood
SparseBottles ==
    (1 :> [assignedViewerId |-> 2, mood |-> TRUE, embedding |-> <<1, 0>>]) @@
    (2 :> [assignedViewerId |-> 2, mood |-> FALSE, embedding |-> <<>>]) @@
    (3 :> [assignedViewerId |-> 1, mood |-> FALSE, embedding |-> <<>>])

NoReq ==
    [route |-> "none", user |-> 0, bottleId |-> 0, top |-> <<>>, final |-> 0,
     jid |-> 0]

NoResp ==
    [route |-> "none", user |-> 0, target |-> 0, status |-> 0, body |-> "none",
     journalId |-> 0, bottleId |-> 0]

Idle(p) == pc[p] = "idle"

\* the model follows the first MaxRequests open and submit requests
Arrive ==
    /\ arrivals < MaxRequests
    /\ arrivals' = arrivals + 1

\* NextResponse.json(...) / a thrown TRPCError: the handler ends
Answer(p, status, body, jid, bid) ==
    /\ pc' = [pc EXCEPT ![p] = "idle"]
    /\ resp' = [route |-> req[p].route, user |-> req[p].user,
                target |-> req[p].bottleId, status |-> status, body |-> body,
                journalId |-> jid, bottleId |-> bid]

Respond(p, status, body, jid, bid) ==
    /\ Answer(p, status, body, jid, bid)
    /\ req' = [req EXCEPT ![p] = NoReq]

Goto(p, label) ==
    /\ pc' = [pc EXCEPT ![p] = label]
    /\ resp' = NoResp

\* the record kept of a committed open transaction
Commit(r, b, t) == <<b, r.user, StartOfDay(t)>>

StoreUnchanged == UNCHANGED <<journals, opens, nextJournalId, committed>>
\* the variables of the image-access store and of the stand-alone retrieval
ImageVars == <<retIn, retOut, access, work, served, calls, peak>>

Frame == UNCHANGED <<now, bottle, selIn, selOut, ImageVars>>
Running == UNCHANGED arrivals

\* open: the assignment check; legacyOpen has none
Unauthorized(route, u, bt, b) ==
    route = "open" /\ ~IsAdmin(u) /\ bt[b].assignedViewerId # u

\* open: the already-opened check applies to everyone;
\* legacyOpen: it sits inside if (!user.isAdmin)
ChecksExisting_skipAdmin(route, u) == ~IsAdmin(u)
ChecksExisting(route, u) == route = "open" \/ ~IsAdmin(u)

\* the daily limit is enforced for non-admin users only
ChecksDaily(u) == ~IsAdmin(u)

\* POST /api/bottles/open and bottles.open (route "open"), and the variant of
\* POST /api/bottles/open without assignment (route "legacyOpen"): the request
\* arrives; bottle.findUnique, 404, and the assignment check.  The bottles
\* table is not written by any handler of the model, so the lookup is taken
\* together with the arrival.
StartOpen(p, route, u, b) ==
    /\ Idle(p)
    /\ Arrive
    /\ IF ~bottleExists(b)
       THEN /\ resp' = [NoResp EXCEPT !.route = route, !.user = u, !.target = b,
                                      !.status = 404, !.body = "BottleNotFound"]
            /\ UNCHANGED <<pc, req>>
       ELSE IF Unauthorized(route, u, bottle, b)
       THEN /\ resp' = [NoResp EXCEPT !.route = route, !.user = u, !.target = b,
                                      !.status = 403, !.body = "NotAuthorized"]
            /\ UNCHANGED <<pc, req>>
       ELSE /\ req' = [req EXCEPT ![p] = [NoReq EXCEPT !.route = route, !.user = u,
                                                       !.bottleId = b]]
            /\ Goto(p, IF ChecksExisting(route, u) THEN "checkExisting"
                       ELSE IF ChecksDaily(u) THEN "checkDaily"
                       ELSE "txJournal")
    /\ StoreUnchanged /\ Frame

\* bottleOpen.findUnique({ bottleId_userId }) and 'Bottle already opened'
CheckExisting(p) ==
    /\ pc[p] = "checkExisting"
    /\ LET r == req[p] IN
       IF existingOpen(opens, r.bottleId, r.user)
       THEN Respond(p, 400, "AlreadyOpened", 0, 0)
       ELSE /\ Goto(p, IF ChecksDaily(r.user) THEN "checkDaily" ELSE "txJournal")
            /\ UNCHANGED req
    /\ StoreUnchanged /\ Frame /\ Running

\* bottleOpen.findFirst({ openedAt in today }) and 'one bottle per day'
CheckDaily(p) ==
    /\ pc[p] = "checkDaily"
    /\ LET r == req[p] IN
       IF openedToday(opens, r.user, now)
       THEN Respond(p, 400, "DailyLimit", 0, 0)
       ELSE Goto(p, "txJournal") /\ UNCHANGED req
    /\ StoreUnchanged /\ Frame /\ Running

\* prisma.$transaction: tx.journalEntry.create; the row takes the next id of the
\* sequence and stays invisible to the other requests until the commit
TxJournal(p) ==
    /\ pc[p] = "txJournal"
    /\ req' = [req EXCEPT ![p].jid = nextJournalId]
    /\ nextJournalId' = nextJournalId + 1
    /\ Goto(p, "txOpen")
    /\ UNCHANGED <<journals, opens, committed>> /\ Frame /\ Running

\* the bottle the transaction opens
Target(r) == IF r.route = "submit" THEN r.final ELSE r.bottleId

\* tx.bottleOpen.create and the commit; a unique violation throws, the
\* transaction rolls back and the catch block answers 500
TxOpenCreate(p) ==
    /\ pc[p] = "txOpen"
    /\ LET r == req[p]
           b == Target(r)
           j == [id |-> r.jid, userId |-> r.user]
           o == [bottleId |-> b, userId |-> r.user, journalEntryId |-> r.jid,
                 openedAt |-> now]
       IN  /\ ~(r.route = "legacyOpen" /\ IsAdmin(r.user))
           /\ IF UniqueViolation(opens, b, r.user)
              THEN /\ journals' = RolledBack(journals, {j})
                   /\ UNCHANGED <<opens, committed>>
                   /\ Respond(p, 500, "Failed", 0, 0)
              ELSE /\ journals' = journals \cup {j}
                   /\ opens' = opens \cup {o}
                   /\ committed' = committed \cup {Commit(r, b, now)}
                   /\ Respond(p, 200, "Opened", r.jid, b)
    /\ UNCHANGED nextJournalId /\ Frame /\ Running

\* legacyOpen, admin: tx.bottleOpen.upsert and the commit
TxOpenUpsert(p) ==
    /\ pc[p] = "txOpen"
    /\ LET r == req[p]
           b == r.bottleId
           j == [id |-> r.jid, userId |-> r.user]
           o == [bottleId |-> b, userId |-> r.user, journalEntryId |-> r.jid,
                 openedAt |-> now]
           old == {x \in opens : x.bottleId = b /\ x.userId = r.user}
       IN  /\ r.route = "legacyOpen" /\ IsAdmin(r.user)
           /\ journals' = journals \cup {j}
           /\ opens' = (opens \ old) \cup {o}
           /\ committed' = committed \cup {Commit(r, b, now)}
           /\ Respond(p, 200, "Opened", r.jid, b)
    /\ UNCHANGED nextJournalId /\ Frame /\ Running

\* a store call throws: the transaction (if any) rolls back, catch answers 500
StorageFail(p) ==
    /\ pc[p] \in {"checkExisting", "checkDaily", "txJournal", "txOpen",
                  "submitDaily", "retrieve", "journalLimit", "journalEmpty"}
    /\ journals' = RolledBack(journals,
                     IF pc[p] = "txOpen"
                     THEN {[id |-> req[p].jid, userId |-> req[p].user]} ELSE {})
    /\ Respond(p, 500, "Failed", 0, 0)
    /\ UNCHANGED <<opens, nextJournalId, committed>> /\ Frame /\ Running

\* POST /api/journal/submit: the request arrives
StartSubmit(p, u) ==
    /\ Idle(p)
    /\ Arrive
    /\ req' = [req EXCEPT ![p] = [NoReq EXCEPT !.route = "submit", !.user = u]]
    /\ Goto(p, IF ChecksDaily(u) THEN "submitDaily" ELSE "retrieve")
    /\ StoreUnchanged /\ Frame

\* bottleOpen.findFirst({ openedAt in today }): the journal is still recorded
SubmitDaily(p) ==
    /\ pc[p] = "submitDaily"
    /\ Goto(p, IF openedToday(opens, req[p].user, now) THEN "journalLimit" ELSE "retrieve")
    /\ UNCHANGED req
    /\ StoreUnchanged /\ Frame /\ Running

\* the rows of journal_entries after the journal-only create
Recorded_dropped(js, j) == js
Recorded(js, j) == js \cup {j}

\* journalEntry.create outside any transaction, answered with a message
JournalOnly(p) ==
    /\ pc[p] \in {"journalLimit", "journalEmpty"}
    /\ journals' = Recorded(journals, [id |-> nextJournalId, userId |-> req[p].user])
    /\ nextJournalId' = nextJournalId + 1
    /\ Respond(p, 200, IF pc[p] = "journalLimit" THEN "AlreadyOpenedToday"
                       ELSE "NoBottlesLeft", nextJournalId, 0)
    /\ UNCHANGED <<opens, committed>> /\ Frame /\ Running

\* the ids this user opened: bottleOpen.findMany({ userId })
openedIds(os, u) == {o.bottleId : o \in {x \in os : x.userId = u}}

\* generateMoodQuery and generateTextEmbedding answer (embedding q), then
\* bottleOpen.findMany and the $queryRaw candidate retrieval.  The provider
\* calls touch no shared state and the bottles table is not written by any
\* handler of the model, so they are taken together with the findMany.
Retrieve(p, q) ==
    /\ pc[p] = "retrieve"
    /\ \E top \in topBottles(bottle, openedIds(opens, req[p].user), q) :
          /\ req' = [req EXCEPT ![p].top = top]
          /\ Goto(p, IF top = <<>> THEN "journalEmpty" ELSE "rerank")
    /\ StoreUnchanged /\ Frame /\ Running

\* the rows of journal_entries after a provider call threw: the entry of the
\* submission is created only after the selection, so none was written
Propagated_journaled(js, j) == js \cup {j}
Propagated(js, j) == js

\* a provider call throws (or the mood query comes back empty): 500
UpstreamFail(p) ==
    /\ pc[p] \in {"retrieve", "rerank"}
    /\ journals' = Propagated(journals, [id |-> nextJournalId, userId |-> req[p].user])
    /\ Respond(p, 500, "Failed", 0, 0)
    /\ UNCHANGED <<opens, nextJournalId, committed>> /\ Frame /\ Running

\* pickBestBottle on the oracle's reply, then the route's own fallback
Rerank(p, reply) ==
    /\ pc[p] = "rerank"
    /\ LET picked == pickBestBottle(req[p].top, reply) IN
       IF picked.throws
       THEN Respond(p, 500, "Failed", 0, 0)
       ELSE /\ req' = [req EXCEPT ![p].final = finalBottle(req[p].top, picked.id),
                                  ![p].top = <<>>]
            /\ Goto(p, "txJournal")
    /\ StoreUnchanged /\ Frame /\ Running

\* the rows of bottle_opens after journal entry jid is deleted: the row that
\* references it is deleted with it
cascaded_none(os, jid) == os
cascaded(os, jid) == {o \in os : o.journalEntryId # jid}

\* DELETE /api/journal?id=: owner check, then journalEntry.delete; the
\* bottle_opens row that references the entry goes with it (cascade).  A
\* request for an entry that does not exist (404) or belongs to another user
\* (403) changes nothing.
DeleteJournal(u, jid) ==
    /\ [id |-> jid, userId |-> u] \in journals
    /\ resp' = [NoResp EXCEPT !.route = "delete", !.user = u, !.status = 200,
                              !.body = "Deleted", !.journalId = jid]
    /\ journals' = journals \ {[id |-> jid, userId |-> u]}
    /\ opens' = cascaded(opens, jid)
    /\ UNCHANGED <<nextJournalId, arrivals, committed, pc, req>> /\ Frame

\* the server clock advances
Tick ==
    /\ now + TickHours <= MaxTicks * TickHours
    /\ now' = now + TickHours
    /\ resp' = NoResp
    /\ UNCHANGED <<bottle, journals, opens, nextJournalId, arrivals, pc, req,
                   committed, selIn, selOut, ImageVars>>

\* the selection step of a submission on its own: pickBestBottle on the
\* candidates and the oracle's reply, then the route's lookup of the id
SelPick ==
    /\ ~selOut.done
    /\ LET picked == pickBestBottle(selIn.bottles, selIn.reply) IN
       selOut' = [done |-> TRUE, throws |-> picked.throws, id |-> picked.id,
                  final |-> IF picked.throws THEN 0
                            ELSE finalBottle(selIn.bottles, picked.id)]
    /\ UNCHANGED <<now, bottle, journals, opens, nextJournalId, arrivals, pc,
                   req, resp, committed, selIn, ImageVars>>

----------------------------------------------------------------------------
(* Image access: grants, checks and view counts (lib/image-access and the *)
(* image routes)                                                          *)

\* NULL in a column of image_access; an option left out of a grant
Null == 0 - 1

\* table images holds image 1; requests can also name image 2, which is no image
Images == {1}
ImageIds == {1, 2}

\* the limits a grant request can carry
MaxViewsArgs == {Null, 1, 2}
ExpiresArgs == {Null, 0, 1}

\* a maxViews of the request body that is no JSON number (a string, say)
NotANumber == 0 - 3

\* the maxViews a request body can carry: left out, no number, negative, zero,
\* positive
BodyMaxViews == {Null, NotANumber, 0 - 2, 0, 1}

\* grantAccessSchema: maxViews is z.number().optional()
grantAccessSchema(mv) == mv # NotANumber

\* prisma.image.findUnique found a row
imageExists_any(i) == TRUE
imageExists(i) == i \in Images

\* prisma.imageAccess.findUnique({ where: { imageId_userId } })
findAccess(tbl, i, u) == {a \in tbl : a.imageId = i /\ a.userId = u}

\* checkImageAccess: the reason of the denial, or "Allowed"
checkImageAccess_ceilingFirst(tbl, i, u, t) ==
    IF findAccess(tbl, i, u) = {}
    THEN "No access granted"
    ELSE LET a == CHOOSE x \in findAccess(tbl, i, u) : TRUE IN
         IF a.maxViews # Null /\ a.accessCount >= a.maxViews
         THEN "Maximum views exceeded"
         ELSE IF a.expiresAt # Null /\ a.expiresAt < t
         THEN "Access expired"
         ELSE "Allowed"

checkImageAccess_expiryAtT(tbl, i, u, t) ==
    IF findAccess(tbl, i, u) = {}
    THEN "No access granted"
    ELSE LET a == CHOOSE x \in findAccess(tbl, i, u) : TRUE IN
         IF a.expiresAt # Null /\ a.expiresAt <= t
         THEN "Access expired"
         ELSE IF a.maxViews # Null /\ a.accessCount >= a.maxViews
         THEN "Maximum views exceeded"
         ELSE "Allowed"

checkImageAccess_offByOne(tbl, i, u, t) ==
    IF findAccess(tbl, i, u) = {}
    THEN "No access granted"
    ELSE LET a == CHOOSE x \in findAccess(tbl, i, u) : TRUE IN
         IF a.expiresAt # Null /\ a.expiresAt < t
         THEN "Access expired"
         ELSE IF a.maxViews # Null /\ a.accessCount > a.maxViews
         THEN "Maximum views exceeded"
         ELSE "Allowed"

checkImageAccess(tbl, i, u, t) ==
    IF findAccess(tbl, i, u) = {}
    THEN "No access granted"
    ELSE LET a == CHOOSE x \in findAccess(tbl, i, u) : TRUE IN
         IF a.expiresAt # Null /\ a.expiresAt < t
         THEN "Access expired"
         ELSE IF a.maxViews # Null /\ a.accessCount >= a.maxViews
         THEN "Maximum views exceeded"
         ELSE "Allowed"

\* the create branch of the upsert: a left-out option is stored as NULL
created(i, u, mv, ex) ==
    [imageId |-> i, userId |-> u, accessCount |-> 0, maxViews |-> mv,
     expiresAt |-> ex]

\* the update branch of the upsert: a left-out option (undefined) leaves the
\* column as it is
updated_resetCount(a, mv, ex) ==
    [a EXCEPT !.maxViews = IF mv = Null THEN a.maxViews ELSE mv,
              !.expiresAt = IF ex = Null THEN a.expiresAt ELSE ex,
              !.accessCount = 0]

updated(a, mv, ex) ==
    [a EXCEPT !.maxViews = IF mv = Null THEN a.maxViews ELSE mv,
              !.expiresAt = IF ex = Null THEN a.expiresAt ELSE ex]

\* prisma.imageAccess.upsert as one statement of the store
upsert(tbl, i, u, mv, ex) ==
    IF findAccess(tbl, i, u) = {}
    THEN tbl \cup {created(i, u, mv, ex)}
    ELSE {IF a \in findAccess(tbl, i, u) THEN updated(a, mv, ex) ELSE a : a \in tbl}

\* UNIQUE(image_id, user_id) of image_access rejects the insert
AccessUniqueViolation_off(tbl, i, u) == FALSE
AccessUniqueViolation(tbl, i, u) == findAccess(tbl, i, u) # {}

\* data: { accessCount: { increment: 1 } } on the row of the pair
incremented_all(tbl, i, u) ==
    {[a EXCEPT !.accessCount = a.accessCount + 1] : a \in tbl}

incremented_twice(tbl, i, u) ==
    {IF a \in findAccess(tbl, i, u)
     THEN [a EXCEPT !.accessCount = a.accessCount + 2] ELSE a : a \in tbl}

incremented(tbl, i, u) ==
    {IF a \in findAccess(tbl, i, u)
     THEN [a EXCEPT !.accessCount = a.accessCount + 1] ELSE a : a \in tbl}

\* the counter the pair shows through Grant and List, Null while it has no row
shown(tbl, i, u) ==
    IF findAccess(tbl, i, u) = {} THEN Null
    ELSE (CHOOSE a \in findAccess(tbl, i, u) : TRUE).accessCount

\* no pair has been granted yet
NeverGranted == [pr \in Images \X Users |-> Null]

\* the highest counter of every pair, the rows of tbl taken into account
Seen(pk, tbl) ==
    [pr \in DOMAIN pk |->
        IF shown(tbl, pr[1], pr[2]) > pk[pr] THEN shown(tbl, pr[1], pr[2]) ELSE pk[pr]]

NoWork ==
    [op |-> "none", at |-> "idle", image |-> 0, user |-> 0, maxViews |-> Null,
     expiresAt |-> Null, seenCount |-> 0, seenMax |-> Null]

NoServed ==
    [op |-> "none", image |-> 0, user |-> 0, status |-> 0, reason |-> "none",
     maxViews |-> Null, expiresAt |-> Null]

Free(p) == work[p].op = "none"

\* the variables of the open engine and of the stand-alone selection
EngineVars ==
    <<bottle, journals, opens, nextJournalId, arrivals, pc, req, resp, committed,
      selIn, selOut, retIn, retOut>>

\* the handler of p ends with this response
Serve(p, status, reason) ==
    /\ served' = [op |-> work[p].op, image |-> work[p].image, user |-> work[p].user,
                  status |-> status, reason |-> reason,
                  maxViews |-> work[p].maxViews, expiresAt |-> work[p].expiresAt]
    /\ work' = [work EXCEPT ![p] = NoWork]

\* the handler of p moves on to its next store call
Step(p, at) ==
    /\ work' = [work EXCEPT ![p].at = at]
    /\ served' = NoServed

\* POST /api/images/[id]/grant-access: admin check, validation of the body,
\* then grantImageAccess up to image.findUnique.  The images table is not written by any handler of the
\* model, so the lookup is taken together with the arrival.
StartGrant(p, caller, i, u, mv, ex) ==
    /\ Free(p)
    /\ calls.grant < MaxGrants
    /\ calls' = [calls EXCEPT !.grant = @ + 1]
    /\ LET refusal(status, reason) ==
              /\ served' = [op |-> "grant", image |-> i, user |-> u,
                            status |-> status, reason |-> reason,
                            maxViews |-> mv, expiresAt |-> ex]
              /\ UNCHANGED work
       IN  IF ~IsAdmin(caller) THEN refusal(403, "Forbidden")
           ELSE IF ~grantAccessSchema(mv) THEN refusal(400, "Validation failed")
           ELSE IF ~imageExists(i) THEN refusal(500, "Image not found")
           ELSE /\ work' = [work EXCEPT ![p] =
                               [NoWork EXCEPT !.op = "grant", !.at = "upsert",
                                              !.image = i, !.user = u,
                                              !.maxViews = mv, !.expiresAt = ex]]
                /\ served' = NoServed
    /\ UNCHANGED <<now, access, peak>> /\ UNCHANGED EngineVars

\* imageAccess.upsert carried out by the store as one statement
GrantUpsert(p) ==
    /\ work[p].at = "upsert"
    /\ LET w == work[p] IN
       access' = upsert(access, w.image, w.user, w.maxViews, w.expiresAt)
    /\ Serve(p, 200, "Granted")
    /\ peak' = Seen(peak, access')
    /\ UNCHANGED <<now, calls>> /\ UNCHANGED EngineVars

\* imageAccess.upsert carried out by the client as a lookup followed by a
\* create or an update
GrantFind(p) ==
    /\ work[p].at = "upsert"
    /\ Step(p, IF findAccess(access, work[p].image, work[p].user) = {}
               THEN "create" ELSE "update")
    /\ UNCHANGED <<now, access, calls, peak>> /\ UNCHANGED EngineVars

GrantCreate(p) ==
    /\ work[p].at = "create"
    /\ LET w == work[p] IN
       IF AccessUniqueViolation(access, w.image, w.user)
       THEN Serve(p, 500, "Failed") /\ UNCHANGED access
       ELSE /\ access' = access \cup {created(w.image, w.user, w.maxViews, w.expiresAt)}
            /\ Serve(p, 200, "Granted")
    /\ peak' = Seen(peak, access')
    /\ UNCHANGED <<now, calls>> /\ UNCHANGED EngineVars

GrantUpdate(p) ==
    /\ work[p].at = "update"
    /\ LET w == work[p] IN
       IF findAccess(access, w.image, w.user) = {}
       THEN Serve(p, 500, "Failed") /\ UNCHANGED access
       ELSE /\ access' = {IF a \in findAccess(access, w.image, w.user)
                          THEN updated(a, w.maxViews, w.expiresAt) ELSE a : a \in access}
            /\ Serve(p, 200, "Granted")
    /\ peak' = Seen(peak, access')
    /\ UNCHANGED <<now, calls>> /\ UNCHANGED EngineVars

\* GET /api/images/[id]: image.findUnique and 404, taken with the arrival
StartFetch(p, u, i) ==
    /\ Free(p)
    /\ calls.fetch < MaxFetches
    /\ calls' = [calls EXCEPT !.fetch = @ + 1]
    /\ IF ~imageExists(i)
       THEN /\ served' = [NoServed EXCEPT !.op = "fetch", !.image = i, !.user = u,
                                          !.status = 404, !.reason = "Image not found"]
            /\ UNCHANGED work
       ELSE /\ work' = [work EXCEPT ![p] =
                           [NoWork EXCEPT !.op = "fetch", !.at = "check",
                                          !.image = i, !.user = u]]
            /\ served' = NoServed
    /\ UNCHANGED <<now, access, peak>> /\ UNCHANGED EngineVars

\* the status of the refusal: { status: 403 } whatever accessCheck.reason is
refusalStatus(reason) == 403

\* checkImageAccess and the 403 of the route
FetchCheck(p) ==
    /\ work[p].at = "check"
    /\ LET w == work[p]
           reason == checkImageAccess(access, w.image, w.user, now)
       IN  IF reason = "Allowed"
           THEN LET a == CHOOSE x \in findAccess(access, w.image, w.user) : TRUE IN
                /\ work' = [work EXCEPT ![p].at = "increment",
                                        ![p].seenCount = a.accessCount,
                                        ![p].seenMax = a.maxViews]
                /\ served' = NoServed
           ELSE Serve(p, refusalStatus(reason), reason)
    /\ UNCHANGED <<now, access, calls, peak>> /\ UNCHANGED EngineVars

\* the catch of checkImageAccess: hasAccess: false with this reason
lookupFailed_open == "Allowed"
lookupFailed == "Error checking access"

\* imageAccess.findUnique throws inside checkImageAccess: its catch denies
FetchCheckFail(p) ==
    /\ work[p].at = "check"
    /\ IF lookupFailed = "Allowed"
       THEN Step(p, "increment")
       ELSE Serve(p, refusalStatus(lookupFailed), lookupFailed)
    /\ UNCHANGED <<now, access, calls, peak>> /\ UNCHANGED EngineVars

\* incrementAccessCount; the update throws when the row is gone
FetchIncrement(p) ==
    /\ work[p].at = "increment"
    /\ LET w == work[p] IN
       IF findAccess(access, w.image, w.user) = {}
       THEN Serve(p, 500, "Failed") /\ UNCHANGED access
       ELSE /\ access' = incremented(access, w.image, w.user)
            /\ Step(p, "download")
    /\ peak' = Seen(peak, access')
    /\ UNCHANGED <<now, calls>> /\ UNCHANGED EngineVars

\* downloadFromR2 and the image response, or the catch of the route
FetchDownload(p) ==
    /\ work[p].at = "download"
    /\ \/ Serve(p, 200, "Image")
       \/ Serve(p, 500, "Failed")
    /\ UNCHANGED <<now, access, calls, peak>> /\ UNCHANGED EngineVars

\* a store call of a grant or of incrementAccessCount throws: 500
ImageStoreFail(p) ==
    /\ work[p].at \in {"upsert", "create", "update", "increment"}
    /\ Serve(p, 500, "Failed")
    /\ UNCHANGED <<now, access, calls, peak>> /\ UNCHANGED EngineVars

\* imageAccess.delete({ where: { imageId_userId } }): the rows left
revoked_none(tbl, i, u) == tbl
revoked(tbl, i, u) == tbl \ findAccess(tbl, i, u)

\* revokeImageAccess: imageAccess.delete of the pair's row; it throws, and
\* changes nothing, when there is no row
Revoke(i, u) ==
    /\ findAccess(access, i, u) # {}
    /\ access' = revoked(access, i, u)
    /\ served' = [NoServed EXCEPT !.op = "revoke", !.image = i, !.user = u,
                                  !.status = 200, !.reason = "Revoked"]
    /\ peak' = Seen(peak, access')
    /\ UNCHANGED <<now, work, calls>> /\ UNCHANGED EngineVars

\* the server clock advances by an hour
Hour ==
    /\ now < MaxHours
    /\ now' = now + 1
    /\ served' = NoServed
    /\ UNCHANGED <<access, work, calls, peak>> /\ UNCHANGED EngineVars

\* nothing retrieved yet
NoRetrieval == [done |-> FALSE, top |-> <<>>]

\* the image-access store before any grant, with no request in flight
ImageInit ==
    /\ retIn = [user |-> 0, q |-> <<>>]
    /\ retOut = NoRetrieval
    /\ access = {}
    /\ work = [p \in Procs |-> NoWork]
    /\ served = NoServed
    /\ calls = [grant |-> 0, fetch |-> 0]
    /\ peak = NeverGranted

----------------------------------------------------------------------------
(* The open engine: requests of any user on any route, interleaved *)

Init ==
    /\ now = 0
    /\ bottle \in {InitBottles, SparseBottles}
    /\ journals = {}
    /\ opens = {}
    /\ nextJournalId = 1
    /\ arrivals = 0
    /\ pc = [p \in Procs |-> "idle"]
    /\ req = [p \in Procs |-> NoReq]
    /\ resp = NoResp
    /\ committed = {}
    /\ selIn = [bottles |-> <<>>, reply |-> <<>>]
    /\ selOut = NoPick
    /\ ImageInit

Next ==
    \/ \E p \in Procs, u \in Users, b \in BottleIds : StartOpen(p, "open", u, b)
    \/ \E p \in Procs, u \in Users, b \in BottleIds : StartOpen(p, "legacyOpen", u, b)
    \/ \E p \in Procs : CheckExisting(p)
    \/ \E p \in Procs : CheckDaily(p)
    \/ \E p \in Procs : TxJournal(p)
    \/ \E p \in Procs : TxOpenCreate(p)
    \/ \E p \in Procs : TxOpenUpsert(p)
    \/ \E p \in Procs : StorageFail(p)
    \/ \E p \in Procs, u \in Users : StartSubmit(p, u)
    \/ \E p \in Procs : SubmitDaily(p)
    \/ \E p \in Procs : JournalOnly(p)
    \/ \E p \in Procs : UpstreamFail(p)
    \/ \E p \in Procs, q \in QueryVecs : Retrieve(p, q)
    \/ \E p \in Procs, reply \in Replies : Rerank(p, reply)
    \/ \E u \in Users, jid \in 1..MaxRequests : DeleteJournal(u, jid)
    \/ Tick

Spec == Init /\ [][Next]_vars

\* the routes that check the assignment (REST open, tRPC open), the journal
\* submission and the journal deletion, without the open route that has no
\* assignment check
NextAssigned ==
    \/ \E p \in Procs, u \in Users, b \in BottleIds : StartOpen(p, "open", u, b)
    \/ \E p \in Procs : CheckExisting(p)
    \/ \E p \in Procs : CheckDaily(p)
    \/ \E p \in Procs : TxJournal(p)
    \/ \E p \in Procs : TxOpenCreate(p)
    \/ \E p \in Procs : StorageFail(p)
    \/ \E p \in Procs, u \in Users : StartSubmit(p, u)
    \/ \E p \in Procs : SubmitDaily(p)
    \/ \E p \in Procs : JournalOnly(p)
    \/ \E p \in Procs : UpstreamFail(p)
    \/ \E p \in Procs, q \in QueryVecs : Retrieve(p, q)
    \/ \E p \in Procs, reply \in Replies : Rerank(p, reply)
    \/ \E u \in Users, jid \in 1..MaxRequests : DeleteJournal(u, jid)
    \/ Tick

SpecAssigned == Init /\ [][NextAssigned]_vars

\* the same handlers, serving one request at a time: a request arrives only
\* when no other request is in flight
NoneInFlight == \A p \in Procs : Idle(p)

NextSequential ==
    \/ /\ NoneInFlight
       /\ \E p \in Procs, u \in Users, b \in BottleIds : StartOpen(p, "open", u, b)
    \/ /\ NoneInFlight
       /\ \E p \in Procs, u \in Users, b \in BottleIds : StartOpen(p, "legacyOpen", u, b)
    \/ /\ NoneInFlight
       /\ \E p \in Procs, u \in Users : StartSubmit(p, u)
    \/ \E p \in Procs : CheckExisting(p)
    \/ \E p \in Procs : CheckDaily(p)
    \/ \E p \in Procs : TxJournal(p)
    \/ \E p \in Procs : TxOpenCreate(p)
    \/ \E p \in Procs : TxOpenUpsert(p)
    \/ \E p \in Procs : StorageFail(p)
    \/ \E p \in Procs : SubmitDaily(p)
    \/ \E p \in Procs : JournalOnly(p)
    \/ \E p \in Procs : UpstreamFail(p)
    \/ \E p \in Procs, q \in QueryVecs : Retrieve(p, q)
    \/ \E p \in Procs, reply \in Replies : Rerank(p, reply)
    \/ \E u \in Users, jid \in 1..MaxRequests : DeleteJournal(u, jid)
    \/ Tick

SpecSequential == Init /\ [][NextSequential]_vars

----------------------------------------------------------------------------
(* The bottle selector on every candidate list and every oracle reply *)

InitSel ==
    /\ now = 0
    /\ bottle = InitBottles
    /\ journals = {}
    /\ opens = {}
    /\ nextJournalId = 1
    /\ arrivals = 0
    /\ pc = [p \in Procs |-> "idle"]
    /\ req = [p \in Procs |-> NoReq]
    /\ resp = NoResp
    /\ committed = {}
    /\ selIn \in [bottles : CandidateLists, reply : Replies]
    /\ selOut = NoPick
    /\ ImageInit

NextSel == SelPick

SpecSel == InitSel /\ [][NextSel]_vars

----------------------------------------------------------------------------
(* The candidate retrieval on its own, over stores with more qualifying *)
(* bottles than the query returns                                       *)

\* a store of eight bottles: six with mood and embedding (3 and 4 at the same
\* distance of every query), one without mood, one without embedding
WideBottles ==
    (1 :> [assignedViewerId |-> 2, mood |-> TRUE, embedding |-> <<1, 0>>]) @@
    (2 :> [assignedViewerId |-> 2, mood |-> TRUE, embedding |-> <<0, 1>>]) @@
    (3 :> [assignedViewerId |-> 1, mood |-> TRUE, embedding |-> <<1, 1>>]) @@
    (4 :> [assignedViewerId |-> 2, mood |-> TRUE, embedding |-> <<2, 2>>]) @@
    (5 :> [assignedViewerId |-> 2, mood |-> TRUE, embedding |-> <<2, 1>>]) @@
    (6 :> [assignedViewerId |-> 1, mood |-> TRUE, embedding |-> <<0 - 1, 0>>]) @@
    (7 :> [assignedViewerId |-> 2, mood |-> FALSE, embedding |-> <<1, 0>>]) @@
    (8 :> [assignedViewerId |-> 2, mood |-> TRUE, embedding |-> <<>>])

\* bottle_opens rows the store can hold when the submission arrives
OpenRows ==
    {[bottleId |-> b, userId |-> u, journalEntryId |-> 0, openedAt |-> 0] :
        b \in {1, 3, 5}, u \in Users}

\* $queryRaw of the submission, on the opens of its user
RetrievePick ==
    /\ ~retOut.done
    /\ \E top \in topBottles(bottle, openedIds(opens, retIn.user), retIn.q) :
          retOut' = [done |-> TRUE, top |-> top]
    /\ UNCHANGED <<now, bottle, journals, opens, nextJournalId, arrivals, pc,
                   req, resp, committed, selIn, selOut, retIn, access, work,
                   served, calls, peak>>

InitRetrieve ==
    /\ now = 0
    /\ bottle \in {WideBottles, SparseBottles}
    /\ journals = {}
    /\ opens \in SUBSET OpenRows
    /\ nextJournalId = 1
    /\ arrivals = 0
    /\ pc = [p \in Procs |-> "idle"]
    /\ req = [p \in Procs |-> NoReq]
    /\ resp = NoResp
    /\ committed = {}
    /\ selIn = [bottles |-> <<>>, reply |-> <<>>]
    /\ selOut = NoPick
    /\ retIn \in [user : Users, q : QueryVecs]
    /\ retOut = NoRetrieval
    /\ access = {}
    /\ work = [p \in Procs |-> NoWork]
    /\ served = NoServed
    /\ calls = [grant |-> 0, fetch |-> 0]
    /\ peak = NeverGranted

NextRetrieve == RetrievePick

SpecRetrieve == InitRetrieve /\ [][NextRetrieve]_vars

----------------------------------------------------------------------------
(* The image-access store: grants, fetches and revocations, interleaved *)

InitImages ==
    /\ now = 0
    /\ bottle = InitBottles
    /\ journals = {}
    /\ opens = {}
    /\ nextJournalId = 1
    /\ arrivals = 0
    /\ pc = [p \in Procs |-> "idle"]
    /\ req = [p \in Procs |-> NoReq]
    /\ resp = NoResp
    /\ committed = {}
    /\ selIn = [bottles |-> <<>>, reply |-> <<>>]
    /\ selOut = NoPick
    /\ ImageInit

NextImages ==
    \/ \E p \in Procs, caller \in Users, i \in ImageIds, u \in Users,
          mv \in MaxViewsArgs, ex \in ExpiresArgs : StartGrant(p, caller, i, u, mv, ex)
    \/ \E p \in Procs : GrantUpsert(p)
    \/ \E p \in Procs : GrantFind(p)
    \/ \E p \in Procs : GrantCreate(p)
    \/ \E p \in Procs : GrantUpdate(p)
    \/ \E p \in Procs, u \in Users, i \in ImageIds : StartFetch(p, u, i)
    \/ \E p \in Procs : FetchCheck(p)
    \/ \E p \in Procs : FetchCheckFail(p)
    \/ \E p \in Procs : FetchIncrement(p)
    \/ \E p \in Procs : FetchDownload(p)
    \/ \E p \in Procs : ImageStoreFail(p)
    \/ \E i \in Images, u \in Users : Revoke(i, u)
    \/ Hour

SpecImages == InitImages /\ [][NextImages]_vars

\* the same, a request arriving only when no other image request is in flight
NoImageWork == \A p \in Procs : Free(p)

NextImagesSequential ==
    \/ /\ NoImageWork
       /\ \E p \in Procs, caller \in Users, i \in ImageIds, u \in Users,
             mv \in MaxViewsArgs, ex \in ExpiresArgs :
                StartGrant(p, caller, i, u, mv, ex)
    \/ /\ NoImageWork
       /\ \E p \in Procs, u \in Users, i \in ImageIds : StartFetch(p, u, i)
    \/ \E p \in Procs : GrantUpsert(p)
    \/ \E p \in Procs : GrantFind(p)
    \/ \E p \in Procs : GrantCreate(p)
    \/ \E p \in Procs : GrantUpdate(p)
    \/ \E p \in Procs : FetchCheck(p)
    \/ \E p \in Procs : FetchCheckFail(p)
    \/ \E p \in Procs : FetchIncrement(p)
    \/ \E p \in Procs : FetchDownload(p)
    \/ \E p \in Procs : ImageStoreFail(p)
    \/ /\ NoImageWork
       /\ \E i \in Images, u \in Users : Revoke(i, u)
    \/ Hour

SpecImagesSequential == InitImages /\ [][NextImagesSequential]_vars

\* grants with any maxViews a request body can carry, and fetches, one request
\* at a time
NextGrantBody ==
    \/ /\ NoImageWork
       /\ \E p \in Procs, caller \in Users, i \in ImageIds, u \in Users,
             mv \in BodyMaxViews : StartGrant(p, caller, i, u, mv, Null)
    \/ /\ NoImageWork
       /\ \E p \in Procs, u \in Users, i \in ImageIds : StartFetch(p, u, i)
    \/ \E p \in Procs : GrantUpsert(p)
    \/ \E p \in Procs : GrantFind(p)
    \/ \E p \in Procs : GrantCreate(p)
    \/ \E p \in Procs : GrantUpdate(p)
    \/ \E p \in Procs : FetchCheck(p)
    \/ \E p \in Procs : FetchCheckFail(p)
    \/ \E p \in Procs : FetchIncrement(p)
    \/ \E p \in Procs : FetchDownload(p)
    \/ \E p \in Procs : ImageStoreFail(p)

SpecGrantBody == InitImages /\ [][NextGrantBody]_vars

----------------------------------------------------------------------------
(* Bottle detail reads, on stores with any set of opens *)

\* GET /api/bottles/[id] (route "detail") and bottles.getById of the tRPC
\* router (route "getById")
ReadRoutes == {"detail", "getById"}

\* detail: if (!user.isAdmin) bottleOpen.findUnique; getById has no such lookup
ChecksOpened(route, u) == route = "detail" /\ ~IsAdmin(u)

\* the read is answered: 404 for an id of no bottle, 403 'You have not opened
\* this bottle yet', or the bottle with its content
ReadBottle(route, u, b) ==
    /\ resp' = IF ~bottleExists(b)
               THEN [NoResp EXCEPT !.route = route, !.user = u, !.target = b,
                                   !.status = 404, !.body = "BottleNotFound"]
               ELSE IF ChecksOpened(route, u) /\ ~existingOpen(opens, b, u)
               THEN [NoResp EXCEPT !.route = route, !.user = u, !.target = b,
                                   !.status = 403, !.body = "NotOpened"]
               ELSE [NoResp EXCEPT !.route = route, !.user = u, !.target = b,
                                   !.status = 200, !.body = "Bottle", !.bottleId = b]
    /\ UNCHANGED <<journals, opens, nextJournalId, arrivals, committed, pc, req>>
    /\ Frame

\* a store call of the read throws: 500
ReadFail(route, u, b) ==
    /\ resp' = [NoResp EXCEPT !.route = route, !.user = u, !.target = b,
                              !.status = 500, !.body = "Failed"]
    /\ UNCHANGED <<journals, opens, nextJournalId, arrivals, committed, pc, req>>
    /\ Frame

\* the open of bottle b by user u, with a journal entry of its own, on the
\* b-th day
OpenOf(b, u) ==
    [bottleId |-> b, userId |-> u, journalEntryId |-> 2 * (b - 1) + u,
     openedAt |-> (b - 1) * HoursPerDay]

\* the opens the store can hold when a read arrives
ReadableOpens == {OpenOf(b, u) : b \in DOMAIN InitBottles, u \in Users}

InitRead ==
    /\ now = 2 * HoursPerDay
    /\ bottle = InitBottles
    /\ opens \in SUBSET ReadableOpens
    /\ journals = {[id |-> o.journalEntryId, userId |-> o.userId] : o \in opens}
    /\ nextJournalId = 7
    /\ arrivals = 0
    /\ pc = [p \in Procs |-> "idle"]
    /\ req = [p \in Procs |-> NoReq]
    /\ resp = NoResp
    /\ committed = {<<o.bottleId, o.userId, StartOfDay(o.openedAt)>> : o \in opens}
    /\ selIn = [bottles |-> <<>>, reply |-> <<>>]
    /\ selOut = NoPick
    /\ ImageInit

NextRead ==
    \/ \E route \in ReadRoutes, u \in Users, b \in BottleIds : ReadBottle(route, u, b)
    \/ \E route \in ReadRoutes, u \in Users, b \in BottleIds : ReadFail(route, u, b)

SpecRead == InitRead /\ [][NextRead]_vars

----------------------------------------------------------------------------
(* Properties *)

TargetedRoutes == {"open", "legacyOpen"}

SameDay(t1, t2) == StartOfDay(t1) = StartOfDay(t2)

\* the handler of p has passed every gate and is inside prisma.$transaction
InTransaction(p) == pc[p] \in {"txJournal", "txOpen"}

\* C1: in every reachable state there is at most one BottleOpen row per
\* (bottle, user) pair, also when two requests both passed the already-opened
\* check before either committed.
C1_OneOpenPerPair ==
    \A o1, o2 \in opens :
        (o1.bottleId = o2.bottleId /\ o1.userId = o2.userId) => o1 = o2

\* a request is past the already-opened check and about to insert while the
\* pair already has a committed row: only the unique index can stop it
C1_RaceReached ==
    \E p \in Procs :
        /\ pc[p] = "txOpen"
        /\ ~(req[p].route = "legacyOpen" /\ IsAdmin(req[p].user))
        /\ existingOpen(opens, Target(req[p]), req[p].user)

\* p's open transaction commits in this step
Commits(p) == pc[p] = "txOpen" /\ pc'[p] = "idle" /\ resp'.body = "Opened"

\* C2: once an open has committed for a (bottle, user) pair, no later open
\* for the same pair ever commits.
C2_OneCommitPerPairEver ==
    [][\A p \in Procs :
         Commits(p) =>
            \A h \in committed : ~(h[1] = resp'.bottleId /\ h[2] = resp'.user)
      ]_vars

\* C3: a non-privileged user never has two BottleOpen rows opened on the same
\* calendar day.
C3_OneOpenPerDay ==
    \A o1, o2 \in opens :
        (o1.userId = o2.userId /\ ~IsAdmin(o1.userId) /\ SameDay(o1.openedAt, o2.openedAt))
            => o1 = o2

\* C4: once an open of a non-privileged user has committed on a day, no
\* later targeted open of that user commits on the same day (it is rejected
\* with Conflict), the requests being handled one after the other.
C4_SecondOpenSameDayRejected ==
    [][\A p \in Procs :
         (Commits(p) /\ req[p].route \in TargetedRoutes /\ ~IsAdmin(req[p].user))
            => \A h \in committed : ~(h[2] = req[p].user /\ h[3] = StartOfDay(now))
      ]_vars

\* the journal_entries row a response names
RespJournal(r) == [id |-> r.journalId, userId |-> r.user]

\* C5: the JournalEntry and the BottleOpen of one open are all-or-nothing: a
\* transaction that ends without committing (unique violation or storage
\* failure after the journal row was created) leaves both tables as they were,
\* and a committed open adds exactly one new JournalEntry and one new BottleOpen
\* linked to it; the journal row of a transaction in progress is not in the table.
C5_AllOrNothing ==
    [][\A p \in Procs :
         /\ (pc'[p] = "txOpen" =>
                \A j \in journals' : j.id # req'[p].jid)
         /\ (pc[p] = "txOpen" /\ pc'[p] = "idle") =>
              IF resp'.body = "Opened"
              THEN /\ resp'.journalId = req[p].jid
                   /\ RespJournal(resp') \notin journals
                   /\ journals' = journals \cup {RespJournal(resp')}
                   /\ Cardinality(opens' \ opens) = 1
                   /\ \A o \in opens' \ opens :
                        /\ o.journalEntryId = resp'.journalId
                        /\ o.userId = resp'.user
                        /\ o.bottleId = resp'.bottleId
              ELSE /\ resp'.status = 500
                   /\ journals' = journals
                   /\ opens' = opens
      ]_vars

\* a transaction took the first id of the sequence and was rolled back: the
\* request failed and neither table holds a row
C5_RolledBackSeen ==
    /\ resp.body = "Failed" /\ resp.route \in TargetedRoutes \cup {"submit"}
    /\ nextJournalId = 2
    /\ journals = {} /\ opens = {} /\ committed = {}
    /\ \A p \in Procs : Idle(p)

C7_AssignmentAndExistence ==
    /\ \A p \in Procs :
          (req[p].route \in TargetedRoutes /\ ~Idle(p))
            => /\ bottleExists(req[p].bottleId)
               /\ (~IsAdmin(req[p].user)
                     => bottle[req[p].bottleId].assignedViewerId = req[p].user)
    /\ resp.body = "NotAuthorized"
          => /\ resp.status = 403 /\ ~IsAdmin(resp.user)
             /\ bottleExists(resp.target)
             /\ bottle[resp.target].assignedViewerId # resp.user
    /\ resp.body = "BottleNotFound"
          => resp.status = 404 /\ ~bottleExists(resp.target)

\* C8: the candidate list of a journal submission holds no bottle assigned to
\* another user, and no submission ever opens a bottle assigned to someone else.
C8_SubmissionOpensOwnBottles ==
    /\ \A p \in Procs :
          req[p].route = "submit"
            => \A i \in 1..Len(req[p].top) :
                  bottle[req[p].top[i]].assignedViewerId = req[p].user
    /\ (resp.route = "submit" /\ resp.body = "Opened")
          => bottle[resp.bottleId].assignedViewerId = resp.user

\* the reply, white space around it aside, is an optional minus sign and a
\* run of digits of value k, followed by nothing or by a character that is no
\* digit
ParsesTo(s, k) ==
    \E a \in 1..Len(s), b \in 1..Len(s) :
       /\ a <= b
       /\ \A i \in a..b : s[i] \in Digits
       /\ b < Len(s) => s[b + 1] \notin Digits
       /\ \/ /\ \A i \in 1..(a - 1) : s[i] = " "
             /\ k = decimal(SubSeq(s, a, b))
          \/ /\ a >= 2 /\ s[a - 1] = "-"
             /\ \A i \in 1..(a - 2) : s[i] = " "
             /\ k = 0 - decimal(SubSeq(s, a, b))

\* the integer the reply parses to lies in 1..N
Chosen(s, N) == {k \in 1..N : ParsesTo(s, k)}

\* C9: for N >= 1 candidates and any reply of the oracle, the empty reply
\* included, the selection never fails; it yields the k-th candidate when the
\* reply parses to an integer k in 1..N and the first candidate otherwise, and
\* the bottle of the submission is that candidate.
C9_SelectorValidatesOrFallsBack ==
    selOut.done =>
       LET N == Len(selIn.bottles)
           ks == Chosen(selIn.reply, N)
       IN  /\ ~selOut.throws
           /\ \A k \in ks : selOut.id = selIn.bottles[k]
           /\ ks = {} => selOut.id = selIn.bottles[1]
           /\ \E i \in 1..N : selOut.id = selIn.bottles[i]
           /\ selOut.final = selOut.id

\* the bottles with a mood and an embedding that the user has not opened
Unopened(u) ==
    {b \in DOMAIN bottle :
        /\ bottle[b].mood /\ bottle[b].embedding # <<>>
        /\ ~existingOpen(opens, b, u)}

\* C11: the candidate list of a retrieval has at most 5 bottles, each with a
\* mood and an embedding and not opened by the requesting user, no bottle
\* twice, in ascending distance to the query; no qualifying bottle left out
\* is strictly closer than a listed one; the list is empty exactly when no
\* bottle qualifies.
C11_CandidateList ==
    retOut.done =>
       LET top == retOut.top
           q == retIn.q
           Q == Unopened(retIn.user)
           listed == {top[i] : i \in 1..Len(top)}
       IN  /\ Len(top) <= 5
           /\ listed \subseteq Q
           /\ Cardinality(listed) = Len(top)
           /\ \A i, j \in 1..Len(top) :
                 i < j => ~Closer(q, bottle[top[j]].embedding, bottle[top[i]].embedding)
           /\ \A b \in Q \ listed, c \in listed :
                 ~Closer(q, bottle[b].embedding, bottle[c].embedding)
           /\ (top = <<>>) <=> (Q = {})

\* a retrieval cut at five rows with a qualifying bottle left out
C11_CutReached ==
    /\ retOut.done /\ Len(retOut.top) = 5
    /\ \E b \in Unopened(retIn.user) : \A i \in 1..5 : retOut.top[i] # b

\* C10: a journal submission that unlocks no bottle (the non-privileged user
\* already opened one today, or the retrieval returned no candidate) records
\* exactly one JournalEntry, creates no BottleOpen, and answers with the id of
\* that entry and a message but no bottle id.
C10_NoBottleStillJournals ==
    [][/\ \A p \in Procs :
            /\ (pc[p] = "submitDaily" /\ pc'[p] = "retrieve")
                  => ~openedToday(opens, req[p].user, now)
            /\ (pc[p] = "retrieve" /\ pc'[p] = "rerank") => req'[p].top # <<>>
            /\ (pc[p] \in {"journalLimit", "journalEmpty"} /\ pc'[p] = "idle"
                  /\ resp'.status # 500)
                  => resp'.body \in {"AlreadyOpenedToday", "NoBottlesLeft"}
       /\ resp'.body \in {"AlreadyOpenedToday", "NoBottlesLeft"}
            => /\ resp'.route = "submit" /\ resp'.status = 200
               /\ resp'.bottleId = 0
               /\ resp'.journalId # 0
               /\ \A j \in journals : j.id # resp'.journalId
               /\ journals' = journals \cup {RespJournal(resp')}
               /\ opens' = opens
               /\ committed' = committed
      ]_vars

\* the retrieval returned no candidate and the submission was answered with
\* the recorded journal
C10_NoCandidatesSeen ==
    /\ resp.body = "NoBottlesLeft"
    /\ RespJournal(resp) \in journals

----------------------------------------------------------------------------
(* Properties of the image-access store *)

\* the rows of the pair that p's request is about
Mine(p) == {a \in access : a.imageId = work[p].image /\ a.userId = work[p].user}

\* p's checkImageAccess returns in this step, its store read having succeeded
Checks(p) ==
    /\ work[p].at = "check" /\ work'[p].at # "check"
    /\ served'.reason # "Error checking access"

\* ... with hasAccess: true
Allows(p) == work[p].at = "check" /\ work'[p].at = "increment"

\* ... with hasAccess: false and this reason
Denies(p, reason) ==
    /\ work[p].at = "check" /\ work'[p].at = "idle"
    /\ served'.op = "fetch" /\ served'.status = 403 /\ served'.reason = reason

Expired(a, t) == a.expiresAt # Null /\ t > a.expiresAt

Exhausted(a) == a.maxViews # Null /\ a.accessCount >= a.maxViews

\* C12: Check decides in this order: no grant record -> 'No access granted';
\* expiration strictly in the past -> 'Access expired'; finite ceiling with
\* counter >= ceiling -> 'Maximum views exceeded'; otherwise allowed.  A grant
\* both expired and exhausted is reported as expired.
C12_CheckOrder ==
    [][\A p \in Procs :
         Checks(p) =>
            IF Mine(p) = {} THEN Denies(p, "No access granted")
            ELSE IF \E a \in Mine(p) : Expired(a, now) THEN Denies(p, "Access expired")
            ELSE IF \E a \in Mine(p) : Exhausted(a)
                 THEN Denies(p, "Maximum views exceeded")
            ELSE Allows(p)
      ]_vars

\* a fetch is denied as expired on a grant that is expired and exhausted
C12_ExpiredAndExhaustedSeen ==
    /\ served.op = "fetch" /\ served.reason = "Access expired"
    /\ \E a \in access :
          /\ a.imageId = served.image /\ a.userId = served.user
          /\ Expired(a, now) /\ Exhausted(a)

\* C13: for a grant with expiration T whose ceiling is not exhausted, Check
\* allows at every clock value now <= T and denies with 'Access expired' at
\* every now > T; the clock never goes back, and no Check allows a pair whose
\* stored expiration has passed.
C13_ExpiryStrict ==
    [][/\ now' >= now
       /\ \A p \in Procs :
            /\ Checks(p) =>
                 \A a \in Mine(p) :
                    (a.expiresAt # Null /\ ~Exhausted(a))
                       => /\ now <= a.expiresAt => Allows(p)
                          /\ now > a.expiresAt => Denies(p, "Access expired")
            /\ Allows(p) => \A a \in Mine(p) : ~(a.expiresAt # Null /\ now > a.expiresAt)
      ]_vars

\* a fetch passed its Check at the very instant of the expiration (the clock
\* starts at 0, so the Check ran at now = T = 0)
C13_AllowedAtExpirySeen ==
    /\ now = 0
    /\ \E p \in Procs :
          /\ work[p].at = "increment"
          /\ \E a \in Mine(p) : a.expiresAt = 0

\* C14: fetches not overlapping, for a grant with ceiling N and no expiration:
\* Check allows exactly while the counter is below N and denies with 'Maximum
\* views exceeded' from then on, every allowed fetch raises the counter by
\* one, and no fetch raises the counter beyond N.
C14_FirstNViewsAllowed ==
    [][\A p \in Procs :
         /\ Checks(p) =>
              \A a \in Mine(p) :
                 (a.maxViews # Null /\ a.expiresAt = Null)
                    => /\ a.accessCount < a.maxViews => Allows(p)
                       /\ a.accessCount >= a.maxViews
                             => Denies(p, "Maximum views exceeded")
         /\ (work[p].at = "increment" /\ work'[p].at = "download")
              => \A a \in Mine(p) :
                    \E b \in access' :
                       /\ b.imageId = a.imageId /\ b.userId = a.userId
                       /\ b.accessCount = a.accessCount + 1
                       /\ b.maxViews # Null => b.accessCount <= b.maxViews
      ]_vars

\* after one grant with ceiling N, N fetches were allowed and the next one is
\* denied, the counter standing at N
C14_CeilingReachedSeen ==
    /\ served.op = "fetch" /\ served.reason = "Maximum views exceeded"
    /\ calls.grant = 1
    /\ \E a \in access :
          /\ a.imageId = served.image /\ a.userId = served.user
          /\ a.maxViews # Null /\ a.expiresAt = Null
          /\ a.accessCount = a.maxViews /\ calls.fetch = a.maxViews + 1

\* C15: a RecordView takes the counter beyond the ceiling only when the row
\* changed between the Check and the RecordView of the request, and two
\* concurrent fetches of one grantee can do exactly that (see the witness).
C15_OvershootOnlyByRace ==
    [][\A p \in Procs :
         (work[p].at = "increment" /\ work'[p].at = "download")
            => \A a \in Mine(p), b \in access' :
                  (/\ b.imageId = a.imageId /\ b.userId = a.userId
                   /\ b.maxViews # Null /\ b.accessCount > b.maxViews)
                     => (a.accessCount # work[p].seenCount \/ a.maxViews # work[p].seenMax)
      ]_vars

\* two fetches of one grantee both saw one view remaining, both incremented,
\* and the counter is the ceiling plus one
C15_OvershootReached ==
    \E a \in access :
       /\ a.maxViews # Null /\ a.accessCount = a.maxViews + 1
       /\ \A p \in Procs :
             /\ work[p].at = "download"
             /\ work[p].image = a.imageId /\ work[p].user = a.userId
             /\ work[p].seenMax = a.maxViews
             /\ work[p].seenCount = a.maxViews - 1

\* the rows of every pair but p's
Others(tbl, p) == {a \in tbl : ~(a.imageId = work[p].image /\ a.userId = work[p].user)}

\* C16: Check changes no grant; RecordView changes only the counter of its own
\* pair, by exactly one; a fetch gets to RecordView only through a Check that
\* allowed it, and a denied fetch leaves every grant as it was.
C16_CheckPureRecordViewOwnPair ==
    [][\A p \in Procs :
         /\ (work[p].at = "check" /\ work'[p] # work[p]) => access' = access
         /\ (work'[p].at = "increment" /\ work[p].at # "increment")
               => /\ work[p].at = "check" /\ work[p].op = "fetch"
                  /\ \E a \in Mine(p) : ~Expired(a, now) /\ ~Exhausted(a)
         /\ (work[p].at = "increment" /\ work'[p] # work[p] /\ access' # access)
               => /\ Others(access', p) = Others(access, p)
                  /\ Cardinality(access') = Cardinality(access)
                  /\ \A a \in Mine(p) :
                        [a EXCEPT !.accessCount = a.accessCount + 1] \in access'
         /\ (work[p].op = "fetch" /\ work[p].at # "increment" /\ work'[p] # work[p])
               => access' = access
      ]_vars

\* a view was recorded for one pair while the other pair holds a grant too
C16_ViewRecordedSeen ==
    \E p \in Procs :
       /\ work[p].at = "download"
       /\ \E a \in Mine(p) : a.accessCount >= 1
       /\ Others(access, p) # {}

\* this step answers a grant request with success
Granted == served'.op = "grant" /\ served'.status = 200

\* C17: a Grant on an existing pair leaves that pair's counter unchanged, and
\* applying the Grant just applied once more leaves the store as it is.
C17_GrantKeepsCounterIdempotent ==
    [][Granted =>
         /\ \A a \in access :
               (a.imageId = served'.image /\ a.userId = served'.user)
                  => \E b \in access' :
                        /\ b.imageId = a.imageId /\ b.userId = a.userId
                        /\ b.accessCount = a.accessCount
         /\ upsert(access', served'.image, served'.user, served'.maxViews,
                   served'.expiresAt) = access'
      ]_vars

\* a pair with recorded views was granted again
C17_RegrantWithViewsSeen ==
    /\ served.op = "grant" /\ served.status = 200
    /\ calls.grant = 2
    /\ \E a \in access :
          /\ a.imageId = served.image /\ a.userId = served.user
          /\ a.accessCount >= 1

\* C18: after a successful Grant the stored ceiling and expiration of the
\* pair are the arguments of the call, a left-out argument meaning no ceiling
\* / no expiration, whatever an earlier Grant had set.
C18_GrantReplacesLimits ==
    [][Granted =>
         \A b \in access' :
            (b.imageId = served'.image /\ b.userId = served'.user)
               => /\ b.maxViews = served'.maxViews
                  /\ b.expiresAt = served'.expiresAt
      ]_vars

\* C19: a Grant refused because the image does not exist or because the
\* caller is no admin creates no grant and changes none; no grant is ever
\* stored for an image that does not exist.
C19_RefusedGrantChangesNothing ==
    [][/\ (served'.op = "grant" /\ served'.reason \in {"Forbidden", "Image not found"})
            => /\ access' = access
               /\ work' = work
       /\ served'.reason = "Image not found" => ~(served'.image \in Images)
       /\ \A a \in access' : a.imageId \in Images
      ]_vars

\* a grant was refused while the store holds grants
C19_RefusalSeen ==
    /\ served.op = "grant" /\ served.reason \in {"Forbidden", "Image not found"}
    /\ access # {}

\* C20: image_access never holds two rows of one (image, user) pair.
C20_OneGrantPerPair ==
    \A a, b \in access : (a.imageId = b.imageId /\ a.userId = b.userId) => a = b

\* a grant found no row for its pair and is about to insert, while a
\* concurrent grant has committed the pair's row
C20_GrantRaceReached ==
    \E p \in Procs : work[p].at = "create" /\ Mine(p) # {}

\* C21: for every (image, user) pair, the access counter the pair shows is
\* never below a counter it showed before, whatever Grant, Check, RecordView
\* and Revoke operations came in between, a Revoke followed by a new Grant
\* included.
C21_CounterNeverDecreases ==
    \A pr \in DOMAIN peak :
        shown(access, pr[1], pr[2]) # Null => shown(access, pr[1], pr[2]) >= peak[pr]

\* the rows of every pair but (i, u)
Except(tbl, i, u) == {a \in tbl : ~(a.imageId = i /\ a.userId = u)}

\* C22: a Revoke leaves no row of its pair and leaves the rows of every other
\* pair as they were; a pair without a row gets one only through a Grant for
\* that pair; and every Check of a pair without a row denies with 'No access
\* granted', never allows.  So from a Revoke until a later Grant of the pair
\* every Check for it is denied with 'No access granted'.
C22_RevokeIsFinal ==
    [][/\ served'.op = "revoke"
            => /\ findAccess(access', served'.image, served'.user) = {}
               /\ Except(access', served'.image, served'.user)
                     = Except(access, served'.image, served'.user)
       /\ \A pr \in Images \X Users :
            (shown(access, pr[1], pr[2]) = Null /\ shown(access', pr[1], pr[2]) # Null)
               => Granted /\ served'.image = pr[1] /\ served'.user = pr[2]
       /\ \A p \in Procs :
            /\ (Checks(p) /\ Mine(p) = {}) => Denies(p, "No access granted")
            /\ Allows(p) => Mine(p) # {}
      ]_vars

\* a fetch is denied with 'No access granted' for a pair that held a grant
\* before and was revoked, while the other user still holds a grant
C22_DeniedAfterRevokeSeen ==
    /\ served.op = "fetch" /\ served.reason = "No access granted"
    /\ served.image \in Images
    /\ peak[<<served.image, served.user>>] # Null
    /\ findAccess(access, served.image, served.user) = {}
    /\ Except(access, served.image, served.user) # {}

\* C23: a detail read gives a non-privileged user the content of a bottle
\* only when a BottleOpen of that (bottle, user) pair exists, and a detail read
\* of an existing bottle the user has not opened is refused (403), on the REST
\* route and on tRPC getById alike.
C23_ReadsOnlyOpenedBottles ==
    (resp.route \in ReadRoutes /\ ~IsAdmin(resp.user))
       => /\ resp.body = "Bottle" => existingOpen(opens, resp.target, resp.user)
          /\ (/\ bottleExists(resp.target)
              /\ ~existingOpen(opens, resp.target, resp.user)
              /\ resp.status # 500)
                => resp.status = 403

\* C24: a Grant whose max-views is not a positive integer creates and changes
\* no AccessGrant: no stored ceiling is zero or negative, and no grant request
\* carrying such a max-views is answered with success.
C24_MaxViewsPositive ==
    /\ \A a \in access : a.maxViews # Null => a.maxViews >= 1
    /\ (served.op = "grant" /\ served.status = 200)
          => (served.maxViews = Null \/ served.maxViews >= 1)

\* C25: the status of a refused fetch tells the Denied reasons apart: 'No
\* access granted', 'Access expired' and 'Maximum views exceeded' are not all
\* answered with one and the same status.
C25_DenialsDistinguished ==
    (served.op = "fetch" /\ served.reason = "Maximum views exceeded")
       => ~(/\ served.status = refusalStatus("No access granted")
            /\ served.status = refusalStatus("Access expired"))

\* p's handler takes a step
Moves(p) == pc'[p] # pc[p]

\* C26: a targeted open evaluates its gates in the order bottle exists
\* (NotFound), assignment (Forbidden), already opened (Conflict), daily limit
\* (Conflict) and reports the first gate that fails, the two Conflict reasons
\* with messages of their own; a request rejected at a gate leaves the
\* journal_entries and bottle_opens tables unchanged, and the transaction is
\* entered only from the last gate that applies to the user (a privileged user
\* skips the daily limit and, where the route exempts them, the already-opened
\* gate).
C26_GatesInOrder ==
    [][/\ (arrivals' = arrivals + 1 /\ resp'.route \in TargetedRoutes)
            => IF ~bottleExists(resp'.target)
               THEN resp'.status = 404 /\ resp'.body = "BottleNotFound"
               ELSE /\ resp'.status = 403 /\ resp'.body = "NotAuthorized"
                    /\ ~IsAdmin(resp'.user)
                    /\ bottle[resp'.target].assignedViewerId # resp'.user
       /\ (resp'.route \in TargetedRoutes /\ resp'.status \in {404, 403, 400})
            => /\ journals' = journals /\ opens' = opens
               /\ nextJournalId' = nextJournalId
       /\ \A p \in Procs :
            /\ (Idle(p) /\ Moves(p) /\ req'[p].route \in TargetedRoutes)
                  => /\ bottleExists(req'[p].bottleId)
                     /\ (IsAdmin(req'[p].user)
                            \/ bottle[req'[p].bottleId].assignedViewerId = req'[p].user)
                     /\ \/ pc'[p] = "checkExisting"
                        \/ IsAdmin(req'[p].user) /\ pc'[p] = "txJournal"
            /\ (pc[p] = "checkExisting" /\ Moves(p) /\ resp'.status # 500)
                  => IF existingOpen(opens, req[p].bottleId, req[p].user)
                     THEN /\ resp'.status = 400 /\ resp'.body = "AlreadyOpened"
                          /\ Idle(p)'
                     ELSE pc'[p] = IF IsAdmin(req[p].user) THEN "txJournal"
                                   ELSE "checkDaily"
            /\ (pc[p] = "checkDaily" /\ Moves(p) /\ resp'.status # 500)
                  => IF openedToday(opens, req[p].user, now)
                     THEN /\ resp'.status = 400 /\ resp'.body = "DailyLimit"
                          /\ Idle(p)'
                     ELSE pc'[p] = "txJournal"
            /\ (req[p].route \in TargetedRoutes /\ Moves(p)
                   /\ (journals' # journals \/ opens' # opens))
                  => pc[p] = "txOpen"
      ]_vars

\* C27: fetches not overlapping, an approved fetch records its view only once
\* the download from object storage has succeeded: the step that raises the
\* counter is the one that answers with the image, and after a fetch whose
\* download failed the counter is the one its Check saw.
C27_ViewRecordedAfterDownload ==
    [][\A p \in Procs :
         /\ (work[p].op = "fetch" /\ work'[p] # work[p] /\ access' # access)
               => served'.status = 200 /\ served'.reason = "Image"
         /\ (work[p].at = "download" /\ work'[p] = NoWork /\ served'.status = 500)
               => shown(access', work[p].image, work[p].user) = work[p].seenCount
      ]_vars

\* C28: a journal submission whose mood-query, embedding or re-ranking call
\* fails ends there with a failure: no JournalEntry and no BottleOpen is
\* written, no journal id is handed out, no bottle is selected in place of the
\* missing answer, and the handler does not go back to any call.
C28_UpstreamFailureIsFatal ==
    [][\A p \in Procs :
         (pc[p] \in {"retrieve", "rerank"} /\ Moves(p) /\ resp'.status = 500)
            => /\ resp'.route = "submit"
               /\ resp'.journalId = 0 /\ resp'.bottleId = 0
               /\ journals' = journals /\ opens' = opens
               /\ committed' = committed /\ nextJournalId' = nextJournalId
               /\ Idle(p)' /\ req'[p] = NoReq
      ]_vars

\* the only request so far, a submission, was answered with a failure and
\* nothing was written
C28_FailedSubmissionSeen ==
    /\ resp.route = "submit" /\ resp.status = 500
    /\ arrivals = 1 /\ nextJournalId = 1
    /\ journals = {} /\ opens = {}
    /\ \A p \in Procs : Idle(p)

\* C29: every BottleOpen references a JournalEntry that exists and belongs to
\* the user of the BottleOpen, no JournalEntry is referenced by two BottleOpens,
\* and no two JournalEntries share an id, in every state reached by opens (the
\* privileged re-open that upserts the record included), journal submissions
\* and journal deletions.
C29_OpensReferenceOwnJournal ==
    /\ \A o \in opens : [id |-> o.journalEntryId, userId |-> o.userId] \in journals
    /\ \A o1, o2 \in opens : o1.journalEntryId = o2.journalEntryId => o1 = o2
    /\ \A j1, j2 \in journals : j1.id = j2.id => j1 = j2

\* a user deleted the journal entry of one of their opens: that open is gone,
\* while another open and its journal entry are still there
C29_DeletedOpenSeen ==
    /\ resp.body = "Deleted"
    /\ \E h \in committed : h[2] = resp.user /\ ~existingOpen(opens, h[1], h[2])
    /\ opens # {}

\* C30: Check fails closed.  A Check allows only on a grant row it has read,
\* neither expired nor exhausted; a Check whose store lookup fails is answered
\* 403 'Error checking access', the handler ending there with image_access
\* unchanged; and the image is returned only by a handler that went through
\* the increment after an allowing Check.
C30_CheckFailsClosed ==
    [][/\ \A p \in Procs :
            /\ Allows(p) => \E a \in Mine(p) : ~Expired(a, now) /\ ~Exhausted(a)
            /\ (work[p].at = "check" /\ work'[p] # work[p])
                  => Allows(p) \/ (work'[p] = NoWork /\ served'.status = 403)
            /\ (work'[p].at = "download" /\ work[p].at # "download")
                  => work[p].at = "increment"
       /\ served'.reason = "Error checking access"
            => /\ served'.op = "fetch" /\ served'.status = 403
               /\ access' = access
               /\ \E p \in Procs : work[p].at = "check" /\ work'[p] = NoWork
       /\ served'.reason = "Image"
            => \E p \in Procs : work[p].at = "download" /\ work'[p] = NoWork
      ]_vars

\* a fetch of a grantee whose grant is valid and unused was denied with 'Error
\* checking access', and no view was recorded
C30_LookupFailureDeniedSeen ==
    /\ served.op = "fetch" /\ served.reason = "Error checking access"
    /\ served.status = 403
    /\ \E a \in access :
          /\ a.imageId = served.image /\ a.userId = served.user
          /\ ~Expired(a, now) /\ ~Exhausted(a)
          /\ a.accessCount = 0

====
